---- MODULE Spec2Model ----
(***************************************************************************)
(* Ingestion pipeline of tgres: start()/stop(), the dispatcher, the        *)
(* sharded workers, the flushers and the stat worker of                    *)
(* src/transceiver.go, and the worker of src/receiver/worker.go.           *)
(***************************************************************************)
EXTENDS Integers, Sequences, FiniteSets, TLC

(* ---- configuration and program constants ---- *)

\* config.Workers: the number of worker and of flusher shards
Workers == 2
\* capacity of dpCh
DpChCap == 1048576
\* capacity of each workerChs[i] and dsCopyChs[i]
WorkerChCap == 1024
\* capacity of stCh
StChCap == 1024
\* capacity of the stat worker's flushCh
FlushChCap == 1
\* config.StatFlush.Duration.Seconds()
StatFlushSecs == 2
\* config.StatsNamePrefix
prefix == "s"

(* ---- bounds of the model ---- *)

\* number of queueDataPoint calls made by the receivers
MaxPoints == 2
\* largest data source id that createDataSource hands out
MaxId == 2
\* number of queueStat calls in the pipeline specification
MaxPipeStats == 1
\* number of requestDsCopy calls
MaxCopyReqs == 2
\* number of wake-ups of the stat timer in the pipeline specification
MaxPipeTicks == 1
\* number of queueStat calls in the stat worker's specification
MaxStats == 2
\* number of wake-ups of the stat timer in the stat worker's specification
MaxTicks == 2
\* number of data points sent to the worker of src/receiver/worker.go
MaxRecvPoints == 3
\* the time that passes in the specification of that worker
MaxTime == 3
\* number of data sources that leave its dss
MaxLost == 1
\* number of data sources that leave the registry of the transceiver
MaxRegLost == 1

Shards == 0 .. (Workers - 1)
Ids == 0 .. MaxId
NoDs == -1
\* names the receivers send: "a" and "b" match a DS spec, "x" matches none
PointNames == {<<"a">>, <<"b">>, <<"x">>}

VARIABLES
  startPc,        \* position of start()
  startWg,        \* t.startWg
  listening,      \* the service manager's listeners accept connections
  stopPc,         \* position of stop()
  dss,            \* t.dss: name -> id of the registered data sources
  reloaded,       \* t.dss.reload() has completed
  live,           \* the live data sources: id -> [LastFlushRT, slots]
  now,            \* the last reading of time.Now()
  dpCh,           \* t.dpCh
  dpClosed,       \* t.dpCh is closed
  dispPc,         \* position of the dispatcher goroutine
  dispatcherWg,   \* t.dispatcherWg
  workerChs,      \* t.workerChs
  workerClosed,   \* t.workerChs[i] is closed
  dsCopyChs,      \* t.dsCopyChs
  wPc,            \* position of worker(i)
  wDs,            \* worker(i)'s ds
  wTodo,          \* ids the range over recent has yet to visit
  flushEverything,\* worker(i)'s flushEverything
  recent,         \* worker(i)'s recent
  workerWg,       \* t.workerWg
  flusherClosed,  \* t.flusherChs[i] is closed
  flPc,           \* position of flusher(i)
  flCur,          \* the snapshot flusher(i) received
  flusherWg,      \* t.flusherWg
  stCh,           \* t.stCh
  stClosed,       \* t.stCh is closed
  statPc,         \* position of statWorker
  flushCh,        \* number of ticks in statWorker's flushCh
  counts,         \* statWorker's counts
  gauges,         \* statWorker's gauges
  timers,         \* statWorker's timers
  statWg,         \* t.statWg
  reqPc,          \* position of the requestDsCopy caller
  reqId,          \* the id it asked for
  reqResp,        \* what requestDsCopy returned
  panicked,       \* a goroutine panicked: the process is gone
  hist,           \* history of calls, for stating the properties
  recvWorkerCh,   \* receiver.worker: workerCh
  recvClosed,     \* receiver.worker: workerCh is closed
  recvPc,         \* receiver.worker: position of the worker
  recvRecent,     \* receiver.worker: recent
  recvDss,        \* receiver.worker: the ids dss.getById() resolves
  recvDs,         \* receiver.worker: the data sources: id -> [points, lastFlush]
  recvNow,        \* receiver.worker: the time
  recvHist,       \* receiver.worker: history of calls
  periodicTimer   \* the goroutine that signals periodicFlushCheck: its
                  \* durations, its position and the sleep it computed

lifeVars == <<startPc, startWg, listening, stopPc, reloaded>>
regVars == <<dss, live, now>>
dispVars == <<dpCh, dpClosed, dispPc, dispatcherWg>>
workerVars == <<workerChs, workerClosed, wPc, wDs, wTodo, flushEverything, recent, workerWg>>
flusherVars == <<flusherClosed, flPc, flCur, flusherWg>>
statVars == <<stCh, stClosed, statPc, flushCh, counts, gauges, timers, statWg>>
copyVars == <<dsCopyChs, reqPc, reqId, reqResp>>
recvVars == <<recvWorkerCh, recvClosed, recvPc, recvRecent, recvDss, recvDs, recvNow, recvHist>>
pipeVars == <<lifeVars, regVars, dispVars, workerVars, flusherVars, statVars, copyVars, panicked, hist>>
vars == <<pipeVars, recvVars, periodicTimer>>

(* ---- helpers ---- *)

Range(f) == {f[x] : x \in DOMAIN f}
EmptyMap == [x \in {} |-> 0]
\* m[k], or d when the map has no entry for k
Lookup(m, k, d) == IF k \in DOMAIN m THEN m[k] ELSE d
\* the map m with m[k] set to v
Put(m, k, v) == [x \in (DOMAIN m) \cup {k} |-> IF x = k THEN v ELSE m[x]]
IsPrefix(s, t) == Len(s) <= Len(t) /\ \A k \in 1 .. Len(s) : s[k] = t[k]

(* ---- the registry and the data sources (external collaborators) ---- *)

\* config.findMatchingDsSpec(name) # nil
MatchesSpec(name) == name \in {<<"a">>, <<"b">>}
\* what t.dss.reload() can find in the durable storage
StoredRegistries == {EmptyMap, (<<"a">> :> 0) @@ (<<"c">> :> 1)}
\* t.dss.getByName(name)
getByName(name) == Lookup(dss, name, NoDs)
\* t.dss.getById(id)
getById(id) == IF id \in Range(dss) THEN id ELSE NoDs
\* t.dss.insert(ds)
insert(name, id) == Put(dss, name, id)
\* the id createDataSource assigns: the next one of the database's sequence
FreshIds == {id \in Ids : id \notin Range(dss) /\ \A j \in Ids \ Range(dss) : id <= j}
\* ds.mostlyCopy(); n is the number of snapshots made of this ds before
mostlyCopy(id) == [Id |-> id, LastFlushRT |-> live[id].LastFlushRT, slots |-> live[id].slots, n |-> Len(hist.produced[id])]
\* the values time.Now() can return: the clock never runs backwards
TimeNow == {now, now + 1}

(* ---- shard selection ---- *)

\* a broken shard selection: the neighbour's shard
NextShardIdx(id) == (id + 1) % Workers
\* dispatcher: t.workerChs[dp.ds.Id%int64(config.Workers)]
WorkerIdx(id) == id % Workers
\* a broken flusher selection: the flushers take turns
RoundRobinIdx(id) == (id + Len(hist.produced[id])) % Workers
\* flushDs: t.flusherChs[ds.Id%int64(config.Workers)]
FlusherIdx(id) == id % Workers
\* requestDsCopy: t.dsCopyChs[id%int64(config.Workers)]
CopyIdx(id) == id % Workers

(* ---- the state after newTransceiver() ---- *)

InitHist == [nQueued |-> 0, nRegLost |-> 0, dequeued |-> 0, processed |-> {}, applied |-> {}, procBy |-> {}, produced |-> [id \in Ids |-> <<>>], producedBy |-> {}, flushed |-> [id \in Ids |-> <<>>], flushedBy |-> {}, creates |-> EmptyMap, inserts |-> EmptyMap, createErrs |-> EmptyMap, routed |-> {}, routedTo |-> {}, nStats |-> 0, ticks |-> 0, dropped |-> 0, nFlushes |-> 0, statSum |-> EmptyMap, timerObs |-> EmptyMap, gaugeLast |-> EmptyMap, reqHandled |-> FALSE, copiedBy |-> {}, lastFlush |-> [points |-> <<>>, sums |-> EmptyMap, obs |-> EmptyMap, last |-> EmptyMap, final |-> FALSE], nReqs |-> 0]

\* receiver.worker after wc.onStarted(): nothing received yet
RecvInit ==
  /\ recvWorkerCh = <<>> /\ recvClosed = FALSE /\ recvPc = "select"
  /\ recvRecent = {}
  /\ recvDss = Ids
  /\ recvDs = [id \in Ids |-> [points |-> 0, lastFlush |-> 0]]
  /\ recvNow = 0
  /\ recvHist = [nSent |-> 0, nLost |-> 0, flushes |-> [id \in Ids |-> <<>>], atClose |-> {}]

\* time.Millisecond, in nanoseconds
Millisecond == 1000000
\* no periodic timer is running
TimerIdle == periodicTimer = [variant |-> "none", minCache |-> Millisecond, maxCache |-> Millisecond, pc |-> "none", sleep |-> 0]

\* the transceiver after newTransceiver()
PipeInit ==
  /\ startPc = "startWorkers" /\ startWg = 0 /\ listening = FALSE /\ stopPc = "idle"
  /\ dss = EmptyMap /\ reloaded = FALSE
  /\ live = [id \in Ids |-> [LastFlushRT |-> 0, slots |-> {}]]
  /\ now = 0
  /\ dpCh = <<>> /\ dpClosed = FALSE /\ dispPc = "none" /\ dispatcherWg = 0
  /\ workerChs = [i \in Shards |-> <<>>] /\ workerClosed = [i \in Shards |-> FALSE]
  /\ dsCopyChs = [i \in Shards |-> <<>>]
  /\ wPc = [i \in Shards |-> "none"] /\ wDs = [i \in Shards |-> NoDs]
  /\ wTodo = [i \in Shards |-> {}] /\ flushEverything = [i \in Shards |-> FALSE]
  /\ recent = [i \in Shards |-> {}] /\ workerWg = 0
  /\ flusherClosed = [i \in Shards |-> FALSE] /\ flPc = [i \in Shards |-> "none"]
  /\ flCur = [i \in Shards |-> NoDs] /\ flusherWg = 0
  /\ stCh = <<>> /\ stClosed = FALSE /\ statPc = "none" /\ flushCh = 0
  /\ counts = EmptyMap /\ gauges = EmptyMap /\ timers = EmptyMap /\ statWg = 0
  /\ reqPc = "idle" /\ reqId = NoDs /\ reqResp = NoDs
  /\ panicked = FALSE
  /\ hist = InitHist

Init == RecvInit /\ TimerIdle /\ PipeInit

(* ---- start() ---- *)

\* t.startWorkers(): N started signals are expected, N workers are launched
startWorkers ==
  /\ ~panicked /\ startPc = "startWorkers"
  /\ startWg' = startWg + Workers
  /\ wPc' = [i \in Shards |-> "spawned"]
  /\ startPc' = "startFlushers"
  /\ UNCHANGED <<periodicTimer, recvVars, listening, stopPc, reloaded, regVars, dispVars, workerChs, workerClosed, wDs, wTodo, flushEverything, recent, workerWg, flusherVars, statVars, copyVars, panicked, hist>>

\* t.startFlushers()
startFlushers ==
  /\ ~panicked /\ startPc = "startFlushers"
  /\ startWg' = startWg + Workers
  /\ flPc' = [i \in Shards |-> "spawned"]
  /\ startPc' = "startStatWorker"
  /\ UNCHANGED <<periodicTimer, recvVars, listening, stopPc, reloaded, regVars, dispVars, workerVars, flusherClosed, flCur, flusherWg, statVars, copyVars, panicked, hist>>

\* t.startStatWorker()
startStatWorker ==
  /\ ~panicked /\ startPc = "startStatWorker"
  /\ startWg' = startWg + 1
  /\ statPc' = "spawned"
  /\ startPc' = "serviceMgr"
  /\ UNCHANGED <<periodicTimer, recvVars, listening, stopPc, reloaded, regVars, dispVars, workerVars, flusherVars, stCh, stClosed, flushCh, counts, gauges, timers, statWg, copyVars, panicked, hist>>

\* t.serviceMgr.run(gracefulProtos): on an error start() returns it
start_serviceMgr ==
  /\ ~panicked /\ startPc = "serviceMgr"
  /\ \E ok \in BOOLEAN :
       /\ startPc' = IF ok THEN "wait" ELSE "failed"
       /\ listening' = ok
  /\ UNCHANGED <<periodicTimer, recvVars, startWg, stopPc, reloaded, regVars, dispVars, workerVars, flusherVars, statVars, copyVars, panicked, hist>>

\* a broken wait: start() does not wait for the started signals
NoStartWait == TRUE
\* t.startWg.Wait() returns when every started signal has been given
StartWgDone == startWg = 0

\* t.startWg.Wait(), then the graceful restart branch when gracefulProtos # ""
start_wait ==
  /\ ~panicked /\ startPc = "wait"
  /\ StartWgDone
  /\ \E graceful \in BOOLEAN : startPc' = IF graceful THEN "signal" ELSE "reload"
  /\ UNCHANGED <<periodicTimer, recvVars, startWg, listening, stopPc, reloaded, regVars, dispVars, workerVars, flusherVars, statVars, copyVars, panicked, hist>>

\* SIGTERM to the parent, then SIGUSR1 from the parent arrives
start_signal ==
  /\ ~panicked /\ startPc = "signal"
  /\ startPc' = "reload"
  /\ UNCHANGED <<periodicTimer, recvVars, startWg, listening, stopPc, reloaded, regVars, dispVars, workerVars, flusherVars, statVars, copyVars, panicked, hist>>

\* t.dss.reload()
start_reload ==
  /\ ~panicked /\ startPc = "reload"
  /\ \E r \in StoredRegistries : dss' = r
  /\ reloaded' = TRUE
  /\ startPc' = "go"
  /\ UNCHANGED <<periodicTimer, recvVars, startWg, listening, stopPc, live, now, dispVars, workerVars, flusherVars, statVars, copyVars, panicked, hist>>

\* go t.dispatcher(); return nil
start_goDispatcher ==
  /\ ~panicked /\ startPc = "go"
  /\ dispPc' = "spawned"
  /\ startPc' = "returned"
  /\ UNCHANGED <<periodicTimer, recvVars, startWg, listening, stopPc, reloaded, regVars, dpCh, dpClosed, dispatcherWg, workerVars, flusherVars, statVars, copyVars, panicked, hist>>

(* ---- stop() ---- *)

\* t.serviceMgr.closeListeners(); tcpWg.Wait(): the receivers are gone
stop_closeListeners ==
  /\ ~panicked /\ startPc = "returned" /\ stopPc = "idle"
  /\ listening' = FALSE
  /\ stopPc' = "close"
  /\ UNCHANGED <<periodicTimer, recvVars, startPc, startWg, reloaded, regVars, dispVars, workerVars, flusherVars, statVars, copyVars, panicked, hist>>

\* close(t.dpCh)
stop_close ==
  /\ ~panicked /\ stopPc = "close"
  /\ dpClosed' = TRUE
  /\ stopPc' = "wait"
  /\ UNCHANGED <<periodicTimer, recvVars, startPc, startWg, listening, reloaded, regVars, dpCh, dispPc, dispatcherWg, workerVars, flusherVars, statVars, copyVars, panicked, hist>>

\* t.dispatcherWg.Wait() returns when the counter is zero
stop_wait ==
  /\ ~panicked /\ stopPc = "wait"
  /\ dispatcherWg = 0
  /\ stopPc' = "returned"
  /\ UNCHANGED <<periodicTimer, recvVars, startPc, startWg, listening, reloaded, regVars, dispVars, workerVars, flusherVars, statVars, copyVars, panicked, hist>>

(* ---- queueDataPoint() and the dispatcher ---- *)

\* a data point as a receiver makes it; seq numbers the receivers' calls
NewPoint(name, k) == [Name |-> name, Value |-> [num |-> 1, den |-> 1], seq |-> k]

\* t.queueDataPoint(dp) called by a receiver: t.dpCh <- dp
queueDataPoint(name) ==
  /\ ~panicked /\ listening
  /\ hist.nQueued < MaxPoints
  /\ Len(dpCh) < DpChCap
  /\ IF dpClosed
       THEN panicked' = TRUE /\ UNCHANGED <<dpCh, hist>>
       ELSE /\ dpCh' = Append(dpCh, NewPoint(name, hist.nQueued + 1))
            /\ hist' = [hist EXCEPT !.nQueued = @ + 1]
            /\ UNCHANGED panicked
  /\ UNCHANGED <<periodicTimer, recvVars, lifeVars, regVars, dpClosed, dispPc, dispatcherWg, workerVars, flusherVars, statVars, copyVars>>

\* the dispatcher goroutine starts: t.dispatcherWg.Add(1)
dispatcher_enter ==
  /\ ~panicked /\ dispPc = "spawned"
  /\ dispatcherWg' = dispatcherWg + 1
  /\ dispPc' = "loop"
  /\ UNCHANGED <<periodicTimer, recvVars, lifeVars, regVars, dpCh, dpClosed, workerVars, flusherVars, statVars, copyVars, panicked, hist>>

\* t.workerChs[dp.ds.Id%int64(config.Workers)] <- dp
Route(dp, id, h) ==
  LET w == WorkerIdx(id) IN
  /\ Len(workerChs[w]) < WorkerChCap
  /\ IF workerClosed[w]
       THEN panicked' = TRUE /\ UNCHANGED workerChs /\ hist' = h
       ELSE /\ workerChs' = [workerChs EXCEPT ![w] = Append(@, [Name |-> dp.Name, seq |-> dp.seq, ds |-> id])]
            /\ hist' = [h EXCEPT !.routed = @ \cup {dp.seq}, !.routedTo = @ \cup {[Name |-> dp.Name, ds |-> id]}]
            /\ UNCHANGED panicked

\* a broken test: every data point looks new
NeverFound(ds) == TRUE
\* dispatcher: dp.ds == nil after dp.ds = t.dss.getByName(dp.Name)
IsNil(ds) == ds = NoDs

\* one turn of the dispatcher's loop on a received data point
dispatcher_dp ==
  /\ ~panicked /\ dispPc = "loop"
  /\ dpCh # <<>>
  /\ LET dp == Head(dpCh)
         h0 == [hist EXCEPT !.dequeued = @ + 1]
         hc == [h0 EXCEPT !.creates = Put(@, dp.Name, Lookup(@, dp.Name, 0) + 1)]
     IN
     /\ dpCh' = Tail(dpCh)
     /\ IF ~IsNil(getByName(dp.Name))
          THEN Route(dp, getByName(dp.Name), h0) /\ UNCHANGED dss
          ELSE IF MatchesSpec(dp.Name)
            THEN \/ \E id \in FreshIds :
                      /\ dss' = insert(dp.Name, id)
                      /\ Route(dp, id, [hc EXCEPT !.inserts = Put(@, dp.Name, Lookup(@, dp.Name, 0) + 1)])
                 \/ \* createDataSource() returned an error: continue
                    /\ hist' = [hc EXCEPT !.createErrs = Put(@, dp.Name, Lookup(@, dp.Name, 0) + 1)]
                    /\ UNCHANGED <<dss, workerChs, panicked>>
            ELSE /\ hist' = h0
                 /\ UNCHANGED <<dss, workerChs, panicked>>
  /\ UNCHANGED <<periodicTimer, recvVars, lifeVars, live, now, dpClosed, dispPc, dispatcherWg, workerClosed, wPc, wDs, wTodo, flushEverything, recent, workerWg, flusherVars, statVars, copyVars>>

\* dp, ok := <-t.dpCh with !ok: the channel is closed and drained
dispatcher_closed ==
  /\ ~panicked /\ dispPc = "loop"
  /\ dpCh = <<>> /\ dpClosed
  /\ dispPc' = "stopStatWorker"
  /\ UNCHANGED <<periodicTimer, recvVars, lifeVars, regVars, dpCh, dpClosed, dispatcherWg, workerVars, flusherVars, statVars, copyVars, panicked, hist>>

\* stopStatWorker(): for len(t.stCh) > 0 { sleep }; close(t.stCh)
stopStatWorker_close ==
  /\ ~panicked /\ dispPc = "stopStatWorker"
  /\ Len(stCh) = 0
  /\ stClosed' = TRUE
  /\ dispPc' = "statWait"
  /\ UNCHANGED <<periodicTimer, recvVars, lifeVars, regVars, dpCh, dpClosed, dispatcherWg, workerVars, flusherVars, stCh, statPc, flushCh, counts, gauges, timers, statWg, copyVars, panicked, hist>>

\* stopStatWorker(): t.statWg.Wait()
stopStatWorker_wait ==
  /\ ~panicked /\ dispPc = "statWait"
  /\ statWg = 0
  /\ dispPc' = "stopWorkers"
  /\ UNCHANGED <<periodicTimer, recvVars, lifeVars, regVars, dpCh, dpClosed, dispatcherWg, workerVars, flusherVars, statVars, copyVars, panicked, hist>>

\* a broken wait: the loop stops at the first empty channel
SomeWorkerDrained == \E i \in Shards : Len(workerChs[i]) = 0
\* stopWorkers(): the loop that waits until len(c) = 0 for every worker channel
WorkersDrained == \A i \in Shards : Len(workerChs[i]) = 0

\* stopWorkers(): wait for the channels to empty, then close every one
stopWorkers_close ==
  /\ ~panicked /\ dispPc = "stopWorkers"
  /\ WorkersDrained
  /\ workerClosed' = [i \in Shards |-> TRUE]
  /\ dispPc' = "workersWait"
  /\ UNCHANGED <<periodicTimer, recvVars, lifeVars, regVars, dpCh, dpClosed, dispatcherWg, workerChs, wPc, wDs, wTodo, flushEverything, recent, workerWg, flusherVars, statVars, copyVars, panicked, hist>>

\* t.workerWg.Wait() returns when every worker has finished
WorkerWgDone == workerWg = 0

\* stopWorkers(): t.workerWg.Wait()
stopWorkers_wait ==
  /\ ~panicked /\ dispPc = "workersWait"
  /\ WorkerWgDone
  /\ dispPc' = "stopFlushers"
  /\ UNCHANGED <<periodicTimer, recvVars, lifeVars, regVars, dpCh, dpClosed, dispatcherWg, workerVars, flusherVars, statVars, copyVars, panicked, hist>>

\* stopFlushers(): close every flusher channel
stopFlushers_close ==
  /\ ~panicked /\ dispPc = "stopFlushers"
  /\ flusherClosed' = [i \in Shards |-> TRUE]
  /\ dispPc' = "flushersWait"
  /\ UNCHANGED <<periodicTimer, recvVars, lifeVars, regVars, dpCh, dpClosed, dispatcherWg, workerVars, flPc, flCur, flusherWg, statVars, copyVars, panicked, hist>>

\* stopFlushers(): t.flusherWg.Wait(); then the dispatcher breaks out of its
\* loop and the deferred t.dispatcherWg.Done() runs
stopFlushers_wait ==
  /\ ~panicked /\ dispPc = "flushersWait"
  /\ flusherWg = 0
  /\ dispatcherWg' = dispatcherWg - 1
  /\ dispPc' = "done"
  /\ UNCHANGED <<periodicTimer, recvVars, lifeVars, regVars, dpCh, dpClosed, workerVars, flusherVars, statVars, copyVars, panicked, hist>>

(* ---- worker(id) and flushDs() ---- *)

\* worker(i) starts: t.workerWg.Add(1), the periodicFlushCheck goroutine,
\* t.startWg.Done()
worker_enter(i) ==
  /\ ~panicked /\ wPc[i] = "spawned"
  /\ workerWg' = workerWg + 1
  /\ startWg' = startWg - 1
  /\ wPc' = [wPc EXCEPT ![i] = "select"]
  /\ UNCHANGED <<periodicTimer, recvVars, startPc, listening, stopPc, reloaded, regVars, dispVars, workerChs, workerClosed, wDs, wTodo, flushEverything, recent, flusherVars, statVars, copyVars, panicked, hist>>

\* a broken flushDs: clearRRAs runs before the snapshot is cloned
flushDsClearFirst(i, id) ==
  LET f == FlusherIdx(id)
      snap == [mostlyCopy(id) EXCEPT !.slots = {}]
  IN
  IF flusherClosed[f]
    THEN panicked' = TRUE /\ UNCHANGED <<live, now, flPc, flCur, hist>>
    ELSE /\ flPc[f] = "recv"
         /\ flPc' = [flPc EXCEPT ![f] = "call"]
         /\ flCur' = [flCur EXCEPT ![f] = snap]
         /\ \E t \in TimeNow :
              /\ now' = t
              /\ live' = [live EXCEPT ![id] = [LastFlushRT |-> t, slots |-> {}]]
         /\ hist' = [hist EXCEPT !.produced[id] = Append(@, snap), !.producedBy = @ \cup {[ds |-> id, worker |-> i, flusher |-> f]}]
         /\ UNCHANGED panicked

\* t.flushDs(ds) called by worker i: the send on the unbuffered flusher
\* channel completes when the flusher receives; then LastFlushRT and clearRRAs
flushDs(i, id) ==
  LET f == FlusherIdx(id)
      snap == mostlyCopy(id)
  IN
  IF flusherClosed[f]
    THEN panicked' = TRUE /\ UNCHANGED <<live, now, flPc, flCur, hist>>
    ELSE /\ flPc[f] = "recv"
         /\ flPc' = [flPc EXCEPT ![f] = "call"]
         /\ flCur' = [flCur EXCEPT ![f] = snap]
         /\ \E t \in TimeNow :
              /\ now' = t
              /\ live' = [live EXCEPT ![id] = [LastFlushRT |-> t, slots |-> {}]]
         /\ hist' = [hist EXCEPT !.produced[id] = Append(@, snap), !.producedBy = @ \cup {[ds |-> id, worker |-> i, flusher |-> f]}]
         /\ UNCHANGED panicked

\* the end of one turn of the worker's loop: break when flushEverything
EndTurn(i, fe) ==
  IF fe
    THEN wPc' = [wPc EXCEPT ![i] = "done"] /\ workerWg' = workerWg - 1
    ELSE wPc' = [wPc EXCEPT ![i] = "select"] /\ UNCHANGED workerWg

\* ds == nil after the select: the range over recent begins
BeginPass(i, fe) ==
  /\ flushEverything' = [flushEverything EXCEPT ![i] = fe]
  /\ wTodo' = [wTodo EXCEPT ![i] = recent[i]]
  /\ IF recent[i] = {}
       THEN EndTurn(i, fe)
       ELSE wPc' = [wPc EXCEPT ![i] = "pass"] /\ UNCHANGED workerWg

\* case <-periodicFlushCheck
worker_periodic(i) ==
  /\ ~panicked /\ wPc[i] = "select"
  /\ BeginPass(i, FALSE)
  /\ UNCHANGED <<periodicTimer, recvVars, lifeVars, regVars, dispVars, workerChs, workerClosed, wDs, recent, flusherVars, statVars, copyVars, panicked, hist>>

\* case dp, ok := <-t.workerChs[id] with ok: dp.process(), then
\* ds.shouldBeFlushed() decides whether this one ds is flushed
worker_dp(i) ==
  /\ ~panicked /\ wPc[i] = "select"
  /\ workerChs[i] # <<>>
  /\ LET dp == Head(workerChs[i]) IN
     \E ok \in BOOLEAN, sbf \in BOOLEAN :
       /\ workerChs' = [workerChs EXCEPT ![i] = Tail(@)]
       /\ live' = IF ok THEN [live EXCEPT ![dp.ds].slots = @ \cup {dp.seq}] ELSE live
       /\ recent' = IF ok THEN [recent EXCEPT ![i] = @ \cup {dp.ds}] ELSE recent
       /\ hist' = [hist EXCEPT !.processed = @ \cup {dp.seq}, !.applied = IF ok THEN @ \cup {dp.seq} ELSE @, !.procBy = @ \cup {[ds |-> dp.ds, worker |-> i]}]
       /\ IF sbf
            THEN wPc' = [wPc EXCEPT ![i] = "flushOne"] /\ wDs' = [wDs EXCEPT ![i] = dp.ds]
            ELSE UNCHANGED <<wPc, wDs>>
  /\ UNCHANGED <<periodicTimer, recvVars, lifeVars, dss, now, dispVars, workerClosed, wTodo, flushEverything, workerWg, flusherVars, statVars, copyVars, panicked>>

\* case dp, ok := <-t.workerChs[id] with !ok: flushEverything = true
worker_closed(i) ==
  /\ ~panicked /\ wPc[i] = "select"
  /\ workerChs[i] = <<>> /\ workerClosed[i]
  /\ BeginPass(i, TRUE)
  /\ UNCHANGED <<periodicTimer, recvVars, lifeVars, regVars, dispVars, workerChs, workerClosed, wDs, recent, flusherVars, statVars, copyVars, panicked, hist>>

\* one iteration of: for dsId, _ := range recent { ... }
worker_pass(i) ==
  /\ ~panicked /\ wPc[i] = "pass"
  /\ \E id \in wTodo[i] :
       /\ wTodo' = [wTodo EXCEPT ![i] = @ \ {id}]
       /\ IF getById(id) = NoDs
            THEN UNCHANGED <<recent, live, now, flPc, flCur, hist, panicked>>
            ELSE \E sbf \in BOOLEAN :
                   IF flushEverything[i] \/ sbf
                     THEN flushDs(i, id) /\ recent' = [recent EXCEPT ![i] = @ \ {id}]
                     ELSE UNCHANGED <<recent, live, now, flPc, flCur, hist, panicked>>
       /\ IF wTodo[i] = {id}
            THEN EndTurn(i, flushEverything[i])
            ELSE UNCHANGED <<wPc, workerWg>>
  /\ UNCHANGED <<periodicTimer, recvVars, lifeVars, dss, dispVars, workerChs, workerClosed, wDs, flushEverything, flusherClosed, flusherWg, statVars, copyVars>>

\* else if ds.shouldBeFlushed() { t.flushDs(ds); delete(recent, ds.Id) }
worker_flushOne(i) ==
  /\ ~panicked /\ wPc[i] = "flushOne"
  /\ flushDs(i, wDs[i])
  /\ recent' = [recent EXCEPT ![i] = @ \ {wDs[i]}]
  /\ wDs' = [wDs EXCEPT ![i] = NoDs]
  /\ wPc' = [wPc EXCEPT ![i] = "select"]
  /\ UNCHANGED <<periodicTimer, recvVars, lifeVars, dss, dispVars, workerChs, workerClosed, wTodo, flushEverything, workerWg, flusherClosed, flusherWg, statVars, copyVars>>

(* ---- flusher(id) ---- *)

\* flusher(f) starts: t.flusherWg.Add(1), t.startWg.Done()
flusher_enter(f) ==
  /\ ~panicked /\ flPc[f] = "spawned"
  /\ flusherWg' = flusherWg + 1
  /\ startWg' = startWg - 1
  /\ flPc' = [flPc EXCEPT ![f] = "recv"]
  /\ UNCHANGED <<periodicTimer, recvVars, startPc, listening, stopPc, reloaded, regVars, dispVars, workerVars, flusherClosed, flCur, statVars, copyVars, panicked, hist>>

\* flushDataSource(ds) is called with the received snapshot and returns
flusher_call(f) ==
  /\ ~panicked /\ flPc[f] = "call"
  /\ hist' = [hist EXCEPT !.flushed[flCur[f].Id] = Append(@, flCur[f]), !.flushedBy = @ \cup {[ds |-> flCur[f].Id, flusher |-> f]}]
  /\ flPc' = [flPc EXCEPT ![f] = "recv"]
  /\ flCur' = [flCur EXCEPT ![f] = NoDs]
  /\ UNCHANGED <<periodicTimer, recvVars, lifeVars, regVars, dispVars, workerVars, flusherClosed, flusherWg, statVars, copyVars, panicked>>

\* ds, ok := <-t.flusherChs[id] with !ok: the flusher exits
flusher_closed(f) ==
  /\ ~panicked /\ flPc[f] = "recv"
  /\ flusherClosed[f]
  /\ flPc' = [flPc EXCEPT ![f] = "done"]
  /\ flusherWg' = flusherWg - 1
  /\ UNCHANGED <<periodicTimer, recvVars, lifeVars, regVars, dispVars, workerVars, flusherClosed, flCur, statVars, copyVars, panicked, hist>>

(* ---- queueStat() and statWorker() ---- *)

\* float64 values are modelled as multiples of 1/Scale: v stands for v/Scale
Scale == 2
\* int64(st.value): the conversion truncates towards zero
Int64(v) == IF v >= 0 THEN v \div Scale ELSE -((-v) \div Scale)
\* the value of a data point: the exact fraction a/b
Quot(a, b) == [num |-> a, den |-> b]
\* equality of two fractions
RatEq(p, q) == p.num * q.den = q.num * p.den
\* math.Min and math.Max
Min(a, b) == IF a <= b THEN a ELSE b
Max(a, b) == IF a >= b THEN a ELSE b

\* the orders in which a range over a map can visit its keys
Orderings(S) == {o \in [1 .. Cardinality(S) -> S] : \A j, k \in 1 .. Cardinality(S) : j # k => o[j] # o[k]}
RECURSIVE Flatten(_)
Flatten(ss) == IF ss = <<>> THEN <<>> ELSE Head(ss) \o Flatten(Tail(ss))

\* t.queueStat(st) called by a receiver: t.stCh <- st
queueStat(st) ==
  /\ ~panicked /\ listening
  /\ statPc # "none"
  /\ Len(stCh) < StChCap
  /\ IF stClosed
       THEN panicked' = TRUE /\ UNCHANGED <<stCh, hist>>
       ELSE /\ stCh' = Append(stCh, st)
            /\ hist' = [hist EXCEPT !.nStats = @ + 1]
            /\ UNCHANGED panicked
  /\ UNCHANGED <<periodicTimer, recvVars, lifeVars, regVars, dispVars, workerVars, flusherVars, stClosed, statPc, flushCh, counts, gauges, timers, statWg, copyVars>>

\* statWorker starts: t.statWg.Add(1), the timer goroutine, t.startWg.Done()
statWorker_enter ==
  /\ ~panicked /\ statPc = "spawned"
  /\ statWg' = statWg + 1
  /\ startWg' = startWg - 1
  /\ statPc' = "select"
  /\ UNCHANGED <<periodicTimer, recvVars, startPc, listening, stopPc, reloaded, regVars, dispVars, workerVars, flusherVars, stCh, stClosed, flushCh, counts, gauges, timers, copyVars, panicked, hist>>

\* a broken test: the timer sends a tick whatever flushCh holds
AlwaysEmpty == TRUE
\* the timer goroutine's test: len(flushCh) == 0
FlushChEmpty == flushCh = 0

\* the timer goroutine wakes up: if len(flushCh) == 0 { flushCh <- 1 } else drop
statTimer_tick ==
  /\ ~panicked /\ statPc \notin {"none", "spawned"}
  /\ IF FlushChEmpty
       THEN flushCh' = flushCh + 1 /\ hist' = [hist EXCEPT !.ticks = @ + 1]
       ELSE UNCHANGED flushCh /\ hist' = [hist EXCEPT !.dropped = @ + 1]
  /\ UNCHANGED <<periodicTimer, recvVars, lifeVars, regVars, dispVars, workerVars, flusherVars, stCh, stClosed, statPc, counts, gauges, timers, statWg, copyVars, panicked>>

\* a data point that flushStats makes
StatPoint(name, value) == [Name |-> name, Value |-> value, seq |-> 0]
\* for name, count := range counts: perSec := float64(count) / StatFlush seconds
CounterPoint(cm, name) == StatPoint(<<prefix, name>>, Quot(cm[name], StatFlushSecs))
\* for name, gauge := range gauges
GaugePoint(gm, name) == StatPoint(<<prefix, "gauges", name>>, Quot(gm[name], Scale))
\* for _, v := range times[1:] { lower = math.Min(lower, v) ... }
RECURSIVE FoldTimes(_, _)
FoldTimes(acc, rest) ==
  IF rest = <<>> THEN acc
  ELSE FoldTimes([lower |-> Min(acc.lower, Head(rest)), upper |-> Max(acc.upper, Head(rest)), sum |-> acc.sum + Head(rest)], Tail(rest))
\* for name, times := range timers: count, then lower, upper, sum, mean
TimerPoints(tm, name) ==
  LET times == tm[name]
      r == FoldTimes([lower |-> times[1], upper |-> times[1], sum |-> 0], Tail(times))
  IN <<StatPoint(<<prefix, "timers", name, "count">>, Quot(Len(times), 1))>> \o
     (IF Len(times) > 0
        THEN << StatPoint(<<prefix, "timers", name, "lower">>, Quot(r.lower, Scale)),
                StatPoint(<<prefix, "timers", name, "upper">>, Quot(r.upper, Scale)),
                StatPoint(<<prefix, "timers", name, "sum">>, Quot(r.sum, Scale)),
                StatPoint(<<prefix, "timers", name, "mean">>, Quot(r.sum, Scale * Len(times))) >>
        ELSE <<>>)

\* counts = make(...); gauges = make(...); timers = make(...)
ClearMaps ==
  /\ counts' = EmptyMap
  /\ gauges' = EmptyMap
  /\ timers' = EmptyMap

\* flushStats() on the maps cm, gm, tm: every point goes through
\* t.queueDataPoint, which panics on a closed t.dpCh; then the maps are cleared
flushStats(cm, gm, tm, h, final) ==
  \E oc \in Orderings(DOMAIN cm), og \in Orderings(DOMAIN gm), ot \in Orderings(DOMAIN tm) :
    LET pts == [k \in DOMAIN oc |-> CounterPoint(cm, oc[k])] \o [k \in DOMAIN og |-> GaugePoint(gm, og[k])] \o Flatten([k \in DOMAIN ot |-> TimerPoints(tm, ot[k])])
    IN
    IF pts # <<>> /\ dpClosed
      THEN /\ panicked' = TRUE
           /\ counts' = cm /\ gauges' = gm /\ timers' = tm
           /\ hist' = h
           /\ UNCHANGED dpCh
      ELSE /\ Len(dpCh) + Len(pts) <= DpChCap
           /\ dpCh' = dpCh \o pts
           /\ ClearMaps
           /\ hist' = [h EXCEPT !.nFlushes = @ + 1, !.lastFlush = [points |-> pts, sums |-> h.statSum, obs |-> h.timerObs, last |-> h.gaugeLast, final |-> final], !.statSum = EmptyMap, !.timerObs = EmptyMap, !.gaugeLast = EmptyMap]
           /\ UNCHANGED panicked

\* the first, non-blocking select of the next turn of the loop:
\* case <-flushCh: flushStats(); default:
statWorker_poll(cm, gm, tm, h) ==
  IF flushCh > 0
    THEN flushCh' = flushCh - 1 /\ flushStats(cm, gm, tm, h, FALSE)
    ELSE /\ counts' = cm /\ gauges' = gm /\ timers' = tm
         /\ hist' = h
         /\ UNCHANGED <<flushCh, dpCh, panicked>>

\* the second select: case <-flushCh: flushStats(); the first select of the
\* next turn then finds flushCh empty
statWorker_flush ==
  /\ ~panicked /\ statPc = "select"
  /\ flushCh > 0
  /\ flushCh' = flushCh - 1
  /\ flushStats(counts, gauges, timers, hist, FALSE)
  /\ UNCHANGED <<periodicTimer, recvVars, lifeVars, regVars, dpClosed, dispPc, dispatcherWg, workerVars, flusherVars, stCh, stClosed, statPc, statWg, copyVars>>

\* the second select: case st, ok := <-t.stCh with ok; then the first select
\* of the next turn
statWorker_stat ==
  /\ ~panicked /\ statPc = "select"
  /\ stCh # <<>>
  /\ LET st == Head(stCh)
         cm == IF st.metric = "c" THEN Put(counts, st.name, Lookup(counts, st.name, 0) + Int64(st.value)) ELSE counts
         gm == IF st.metric = "g" THEN Put(gauges, st.name, st.value) ELSE gauges
         tm == IF st.metric = "ms" THEN Put(timers, st.name, Append(Lookup(timers, st.name, <<0, 0, 0, 0>>), st.value)) ELSE timers
         h == [hist EXCEPT
                 !.statSum = IF st.metric = "c" THEN Put(@, st.name, Lookup(@, st.name, 0) + st.value) ELSE @,
                 !.gaugeLast = IF st.metric = "g" THEN Put(@, st.name, st.value) ELSE @,
                 !.timerObs = IF st.metric = "ms" THEN Put(@, st.name, Append(Lookup(@, st.name, <<>>), st.value)) ELSE @]
     IN
     /\ stCh' = Tail(stCh)
     /\ statWorker_poll(cm, gm, tm, h)
  /\ UNCHANGED <<periodicTimer, recvVars, lifeVars, regVars, dpClosed, dispPc, dispatcherWg, workerVars, flusherVars, stClosed, statPc, statWg, copyVars>>

\* the second select: case st, ok := <-t.stCh with !ok: the final flush
statWorker_closed ==
  /\ ~panicked /\ statPc = "select"
  /\ stCh = <<>> /\ stClosed
  /\ flushStats(counts, gauges, timers, hist, TRUE)
  /\ IF panicked' THEN UNCHANGED <<statPc, statWg>> ELSE statPc' = "done" /\ statWg' = statWg - 1
  /\ UNCHANGED <<periodicTimer, recvVars, lifeVars, regVars, dpClosed, dispPc, dispatcherWg, workerVars, flusherVars, stCh, stClosed, flushCh, copyVars>>

(* ---- requestDsCopy() ---- *)

\* t.requestDsCopy(id) called by the HTTP side: the request is sent to the
\* owning worker, then the caller waits on req.resp
requestDsCopy(id) ==
  /\ ~panicked /\ listening
  /\ reqPc \in {"idle", "returned"}
  /\ wPc[CopyIdx(id)] # "none"
  /\ Len(dsCopyChs[CopyIdx(id)]) < WorkerChCap
  /\ dsCopyChs' = [dsCopyChs EXCEPT ![CopyIdx(id)] = Append(@, [dsId |-> id])]
  /\ reqPc' = "waiting"
  /\ reqId' = id
  /\ reqResp' = NoDs
  /\ hist' = [hist EXCEPT !.nReqs = @ + 1, !.reqHandled = FALSE]
  /\ UNCHANGED <<periodicTimer, recvVars, lifeVars, regVars, dispVars, workerVars, flusherVars, statVars, panicked>>

\* case r := <-t.dsCopyChs[id]: the copy is sent on r.resp, which the caller
\* is receiving from, only when the ds is found
worker_copy(i) ==
  /\ ~panicked /\ wPc[i] = "select"
  /\ dsCopyChs[i] # <<>>
  /\ LET r == Head(dsCopyChs[i]) IN
     /\ dsCopyChs' = [dsCopyChs EXCEPT ![i] = Tail(@)]
     /\ IF getById(r.dsId) = NoDs
          THEN UNCHANGED <<reqPc, reqResp>>
          ELSE reqResp' = mostlyCopy(r.dsId) /\ reqPc' = "returned"
     /\ hist' = [hist EXCEPT !.reqHandled = TRUE, !.copiedBy = IF getById(r.dsId) = NoDs THEN @ ELSE @ \cup {[ds |-> r.dsId, worker |-> i]}]
  /\ UNCHANGED <<periodicTimer, recvVars, lifeVars, regVars, dispVars, workerVars, flusherVars, statVars, reqId, panicked>>

(* ---- the pipeline from start() to stop() ---- *)

\* the stats the receivers send in the pipeline specification
PipeStats == {[name |-> "h", metric |-> "c", value |-> Scale]}

\* start(), stop(), the dispatcher, the workers and the flushers
Pipeline ==
  \/ startWorkers
  \/ startFlushers
  \/ startStatWorker
  \/ start_serviceMgr
  \/ start_wait
  \/ start_signal
  \/ start_reload
  \/ start_goDispatcher
  \/ stop_closeListeners
  \/ stop_close
  \/ stop_wait
  \/ \E name \in PointNames : queueDataPoint(name)
  \/ dispatcher_enter
  \/ dispatcher_dp
  \/ dispatcher_closed
  \/ stopStatWorker_close
  \/ stopStatWorker_wait
  \/ stopWorkers_close
  \/ stopWorkers_wait
  \/ stopFlushers_close
  \/ stopFlushers_wait
  \/ \E i \in Shards : worker_enter(i)
  \/ \E i \in Shards : worker_periodic(i)
  \/ \E i \in Shards : worker_dp(i)
  \/ \E i \in Shards : worker_closed(i)
  \/ \E i \in Shards : worker_pass(i)
  \/ \E i \in Shards : worker_flushOne(i)
  \/ \E f \in Shards : flusher_enter(f)
  \/ \E f \in Shards : flusher_call(f)
  \/ \E f \in Shards : flusher_closed(f)
  \/ statWorker_enter
  \/ statWorker_closed

\* the pipeline while no stats arrive
Next == Pipeline

Spec == Init /\ [][Next]_vars

\* the pipeline with stats arriving and the stat timer running
StatTraffic ==
  \/ \E st \in PipeStats : hist.nStats < MaxPipeStats /\ queueStat(st)
  \/ hist.ticks + hist.dropped < MaxPipeTicks /\ statTimer_tick
  \/ statWorker_flush
  \/ statWorker_stat

FullNext == Pipeline \/ StatTraffic

FullSpec == Init /\ [][FullNext]_vars

(* ---- the running pipeline: start() has returned, nothing is queued ---- *)

RunInit ==
  /\ RecvInit /\ TimerIdle
  /\ startPc = "returned" /\ startWg = 0 /\ listening = TRUE /\ stopPc = "idle"
  /\ dss \in StoredRegistries /\ reloaded = TRUE
  /\ live = [id \in Ids |-> [LastFlushRT |-> 0, slots |-> {}]]
  /\ now = 0
  /\ dpCh = <<>> /\ dpClosed = FALSE /\ dispPc = "loop" /\ dispatcherWg = 1
  /\ workerChs = [i \in Shards |-> <<>>] /\ workerClosed = [i \in Shards |-> FALSE]
  /\ dsCopyChs = [i \in Shards |-> <<>>]
  /\ wPc = [i \in Shards |-> "select"] /\ wDs = [i \in Shards |-> NoDs]
  /\ wTodo = [i \in Shards |-> {}] /\ flushEverything = [i \in Shards |-> FALSE]
  /\ recent = [i \in Shards |-> {}] /\ workerWg = Workers
  /\ flusherClosed = [i \in Shards |-> FALSE] /\ flPc = [i \in Shards |-> "recv"]
  /\ flCur = [i \in Shards |-> NoDs] /\ flusherWg = Workers
  /\ stCh = <<>> /\ stClosed = FALSE /\ statPc = "select" /\ flushCh = 0
  /\ counts = EmptyMap /\ gauges = EmptyMap /\ timers = EmptyMap /\ statWg = 1
  /\ reqPc = "idle" /\ reqId = NoDs /\ reqResp = NoDs
  /\ panicked = FALSE
  /\ hist = InitHist

\* RunInit is a state of the pipeline: Spec reaches it
RunInitReached == ~RunInit

(* ---- the running pipeline serving requestDsCopy ---- *)

CopyNext ==
  \/ \E name \in PointNames : queueDataPoint(name)
  \/ dispatcher_dp
  \/ \E i \in Shards : worker_periodic(i)
  \/ \E i \in Shards : worker_dp(i)
  \/ \E i \in Shards : worker_pass(i)
  \/ \E i \in Shards : worker_flushOne(i)
  \/ \E f \in Shards : flusher_call(f)
  \/ \E id \in Ids : hist.nReqs < MaxCopyReqs /\ requestDsCopy(id)
  \/ \E i \in Shards : worker_copy(i)

CopySpec == RunInit /\ [][CopyNext]_vars

(* ---- the running stat worker ---- *)

\* the stats the receivers send: counters, gauges, timers and an unknown
\* metric, with the values 0.5, 1.0 and 1.5
StatInputs == [name : {"h", "r"}, metric : {"c", "g", "ms", "q"}, value : {1, 2, 3}]

StatNext ==
  \/ \E st \in StatInputs : hist.nStats < MaxStats /\ queueStat(st)
  \/ hist.ticks + hist.dropped < MaxTicks /\ statTimer_tick
  \/ statWorker_flush
  \/ statWorker_stat

StatSpec == RunInit /\ [][StatNext]_vars

(* ---- the running workers when the registry loses a data source ---- *)

\* the data source of this name leaves the registry while its id may still be
\* in a worker's recent; nothing is waiting for the dispatcher
registry_lose(name) ==
  /\ ~panicked
  /\ name \in DOMAIN dss
  /\ dpCh = <<>>
  /\ hist.nRegLost < MaxRegLost
  /\ dss' = [x \in (DOMAIN dss) \ {name} |-> dss[x]]
  /\ hist' = [hist EXCEPT !.nRegLost = @ + 1]
  /\ UNCHANGED <<periodicTimer, recvVars, lifeVars, live, now, dispVars, workerVars, flusherVars, statVars, copyVars, panicked>>

LostNext ==
  \/ \E name \in PointNames : hist.nRegLost = 0 /\ queueDataPoint(name)
  \/ dispatcher_dp
  \/ \E i \in Shards : worker_periodic(i)
  \/ \E i \in Shards : worker_dp(i)
  \/ \E i \in Shards : worker_pass(i)
  \/ \E i \in Shards : worker_flushOne(i)
  \/ \E f \in Shards : flusher_call(f)
  \/ \E name \in PointNames : registry_lose(name)

LostSpec == RunInit /\ [][LostNext]_vars

(* ---- the worker of src/receiver/worker.go ---- *)

\* minCacheDur, maxCacheDur and maxPoints, the worker's parameters
MinCacheDur == 1
MaxCacheDur == 2
MaxCachedPoints == 2

\* rds.shouldBeFlushed(maxPoints, minCacheDur, maxCacheDur): true when the ds
\* has at least maxPoints buffered slots or its last flush is older than
\* maxCacheDur; always false below minCacheDur
shouldBeFlushed(d, maxPoints, minCache, maxCache) ==
  LET age == recvNow - d.lastFlush IN
  /\ age >= minCache
  /\ d.points >= maxPoints \/ age > maxCache

\* dsf.flushDs(rds, false) on every id of the set F: the snapshot is handed
\* over, the last flush time is set and the buffered slots are cleared
RecvFlushed(ds, F) == [id \in Ids |-> IF id \in F THEN [points |-> 0, lastFlush |-> recvNow] ELSE ds[id]]
RecvLogged(h, ds, F, why) == [h EXCEPT !.flushes = [id \in Ids |-> IF id \in F THEN Append(@[id], [points |-> ds[id].points, at |-> recvNow, why |-> why]) ELSE @[id]]]

\* the director sends a data point with its ds on workerCh
recv_send(id) ==
  /\ ~recvClosed
  /\ recvHist.nSent < MaxRecvPoints
  /\ recvWorkerCh' = Append(recvWorkerCh, id)
  /\ recvHist' = [recvHist EXCEPT !.nSent = @ + 1]
  /\ UNCHANGED <<periodicTimer, pipeVars, recvClosed, recvPc, recvRecent, recvDss, recvDs, recvNow>>

\* workerCh is closed
recv_close ==
  /\ ~recvClosed
  /\ recvClosed' = TRUE
  /\ UNCHANGED <<periodicTimer, pipeVars, recvWorkerCh, recvPc, recvRecent, recvDss, recvDs, recvNow, recvHist>>

\* time passes
recv_tick ==
  /\ recvNow < MaxTime
  /\ recvNow' = recvNow + 1
  /\ UNCHANGED <<periodicTimer, pipeVars, recvWorkerCh, recvClosed, recvPc, recvRecent, recvDss, recvDs, recvHist>>

\* a data source leaves dss (it moved to another node)
recv_lose(id) ==
  /\ id \in recvDss
  /\ recvHist.nLost < MaxLost
  /\ recvDss' = recvDss \ {id}
  /\ recvHist' = [recvHist EXCEPT !.nLost = @ + 1]
  /\ UNCHANGED <<periodicTimer, pipeVars, recvWorkerCh, recvClosed, recvPc, recvRecent, recvDs, recvNow>>

\* workerPeriodicFlush: the ids of recent that dss no longer resolves
PeriodicLost == {id \in recvRecent : id \notin recvDss}
\* workerPeriodicFlush: the ids of recent that are flushed:
\* rds.shouldBeFlushed(maxPoints, minCacheDur, minCacheDur)
PeriodicFlushed == {id \in recvRecent \cap recvDss : shouldBeFlushed(recvDs[id], MaxCachedPoints, MinCacheDur, MinCacheDur)}

\* case <-periodicFlushCheck: workerPeriodicFlush(...)
recv_periodic ==
  /\ recvPc = "select"
  /\ recvRecent' = recvRecent \ (PeriodicLost \cup PeriodicFlushed)
  /\ recvDs' = RecvFlushed(recvDs, PeriodicFlushed)
  /\ recvHist' = RecvLogged(recvHist, recvDs, PeriodicFlushed, "periodic")
  /\ UNCHANGED <<periodicTimer, pipeVars, recvWorkerCh, recvClosed, recvPc, recvDss, recvNow>>

\* case dpds, ok := <-workerCh with ok: ProcessIncomingDataPoint, then the
\* flush of this one ds or its entry in recent
recv_dp ==
  /\ recvPc = "select"
  /\ recvWorkerCh # <<>>
  /\ LET id == Head(recvWorkerCh) IN
     \E ok \in BOOLEAN :
       LET ds1 == IF ok THEN [recvDs EXCEPT ![id].points = @ + 1] ELSE recvDs
           fl == ok /\ shouldBeFlushed(ds1[id], MaxCachedPoints, MinCacheDur, MaxCacheDur)
       IN
       /\ recvWorkerCh' = Tail(recvWorkerCh)
       /\ recvDs' = IF fl THEN RecvFlushed(ds1, {id}) ELSE ds1
       /\ recvHist' = IF fl THEN RecvLogged(recvHist, ds1, {id}, "point") ELSE recvHist
       /\ recvRecent' = IF ~ok THEN recvRecent ELSE IF fl THEN recvRecent \ {id} ELSE recvRecent \cup {id}
  /\ UNCHANGED <<periodicTimer, pipeVars, recvClosed, recvPc, recvDss, recvNow>>

\* case dpds, ok := <-workerCh with !ok: return
recv_closed ==
  /\ recvPc = "select"
  /\ recvWorkerCh = <<>> /\ recvClosed
  /\ recvPc' = "done"
  /\ recvHist' = [recvHist EXCEPT !.atClose = recvRecent]
  /\ UNCHANGED <<periodicTimer, pipeVars, recvWorkerCh, recvClosed, recvRecent, recvDss, recvDs, recvNow>>

RecvNext ==
  \/ \E id \in Ids : recv_send(id)
  \/ recv_close
  \/ recv_tick
  \/ \E id \in Ids : recv_lose(id)
  \/ recv_periodic
  \/ recv_dp
  \/ recv_closed

RecvSpec == Init /\ [][RecvNext]_vars

(* ---- the periodic flush timers of the two workers ---- *)

\* the configured cache durations, in nanoseconds: 1 ms, 1.5 ms and 2 ms
CacheDurations == {Millisecond, 3 * (Millisecond \div 2), 2 * Millisecond}
\* rand.Intn(n): a number of 0 .. n-1; it panics when n <= 0
Intn(n) == 0 .. (n - 1)

\* the timer goroutine of a worker starts with MinCache <= MaxCache
TimerInit ==
  /\ RecvInit /\ PipeInit
  /\ \E v \in {"transceiver", "receiver"}, lo \in CacheDurations, hi \in CacheDurations :
       /\ lo <= hi
       /\ periodicTimer = [variant |-> v, minCache |-> lo, maxCache |-> hi, pc |-> "compute", sleep |-> 0]

\* the timer of worker() in src/transceiver.go:
\* i := int(MaxCache ns - MinCache ns) / 1000;
\* time.Sleep(time.Duration(rand.Intn(i))*time.Millisecond + MinCache)
timer_transceiver ==
  /\ periodicTimer.variant = "transceiver" /\ periodicTimer.pc = "compute"
  /\ LET i == (periodicTimer.maxCache - periodicTimer.minCache) \div 1000 IN
     IF i <= 0
       THEN periodicTimer' = [periodicTimer EXCEPT !.pc = "panicked"]
       ELSE \E r \in Intn(i) :
              periodicTimer' = [periodicTimer EXCEPT !.pc = "sleeping", !.sleep = r * Millisecond + periodicTimer.minCache]
  /\ UNCHANGED <<pipeVars, recvVars>>

\* workerPeriodicFlushSignal of src/receiver/worker.go:
\* i := int(maxCacheDur ns - minCacheDur ns) / 1000000;
\* dur := time.Duration(rand.Intn(i+1))*time.Millisecond + minCacheDur
workerPeriodicFlushSignal ==
  /\ periodicTimer.variant = "receiver" /\ periodicTimer.pc = "compute"
  /\ LET i == (periodicTimer.maxCache - periodicTimer.minCache) \div 1000000 IN
     IF i + 1 <= 0
       THEN periodicTimer' = [periodicTimer EXCEPT !.pc = "panicked"]
       ELSE \E r \in Intn(i + 1) :
              periodicTimer' = [periodicTimer EXCEPT !.pc = "sleeping", !.sleep = r * Millisecond + periodicTimer.minCache]
  /\ UNCHANGED <<pipeVars, recvVars>>

\* the sleep is over: periodicFlushCheck <- 1, and the loop starts again
timer_signal ==
  /\ periodicTimer.pc = "sleeping"
  /\ periodicTimer' = [periodicTimer EXCEPT !.pc = "compute"]
  /\ UNCHANGED <<pipeVars, recvVars>>

TimerNext ==
  \/ timer_transceiver
  \/ workerPeriodicFlushSignal
  \/ timer_signal

TimerSpec == TimerInit /\ [][TimerNext]_vars

(* ---- properties of the pipeline ---- *)

\* the pipeline has shut down: the dispatcher has finished, or the process
\* died of a panic, after stop() was called
ShutDown == stopPc # "idle" /\ (dispPc = "done" \/ panicked)
\* a point of a receiver still in the arrival queue that the dispatcher
\* would resolve
Resolvable(dp) == dp.seq > 0 /\ (dp.Name \in DOMAIN dss \/ MatchesSpec(dp.Name))

\* C1: no point loss on graceful shutdown: when the pipeline has shut down,
\* every point that was resolved to a data source has been applied by
\* process, and no such point is left in the arrival queue or a worker inbox
C1_NoPointLoss ==
  ShutDown =>
    /\ hist.routed \subseteq hist.processed
    /\ \A k \in 1 .. Len(dpCh) : ~Resolvable(dpCh[k])
    /\ \A i \in Shards : workerChs[i] = <<>>

\* C2: when a worker's inbox is closed the worker makes one final pass that
\* flushes every id of its recent, and only then returns: a worker that has
\* returned has left no id in recent that dss resolves, and every id that was
\* in recent when the inbox closed has been flushed in that final pass
C2_FinalPass ==
  /\ \A i \in Shards : wPc[i] = "done" => \A id \in recent[i] : getById(id) = NoDs
  /\ recvPc = "done" =>
       /\ \A id \in recvRecent : id \notin recvDss
       /\ \A id \in recvHist.atClose \cap recvDss : \E k \in DOMAIN recvHist.flushes[id] : recvHist.flushes[id][k].why = "final"

\* the final pass of the worker of src/transceiver.go: a worker that has
\* returned has an empty recent, and the flusher channels are still open
\* while a worker is in its final pass
TransceiverFinalPass ==
  /\ \A i \in Shards : wPc[i] = "done" => recent[i] = {}
  /\ \A i \in Shards : flushEverything[i] /\ wPc[i] = "pass" => \A f \in Shards : ~flusherClosed[f]

\* C3: shard affinity: process, the snapshot for flushing and clearRRAs of
\* the ds with id k happen on worker k mod N, the snapshot goes to flusher
\* k mod N, and worker i's recent holds only ids with id mod N = i
C3_ShardAffinity ==
  /\ \A r \in hist.procBy : r.worker = r.ds % Workers
  /\ \A r \in hist.producedBy : r.worker = r.ds % Workers /\ r.flusher = r.ds % Workers
  /\ \A r \in hist.flushedBy : r.flusher = r.ds % Workers
  /\ \A i \in Shards : \A id \in recent[i] : id % Workers = i

\* C3 witness: both workers have applied points and a snapshot of a data
\* source of worker 1 was handed to flusher 1
C3_Witness ==
  /\ \E r \in hist.procBy : r.worker = 0
  /\ \E r \in hist.procBy : r.worker = 1
  /\ \E r \in hist.producedBy : r.worker = 1 /\ r.flusher = 1

\* C4 as stated: createDataSource is invoked exactly once for a new name and
\* the registry receives exactly one insert for it
C4_ExactlyOnce ==
  \A n \in DOMAIN hist.creates : hist.creates[n] = 1 /\ Lookup(hist.inserts, n, 0) = 1

\* C4 amended: per name at most one createDataSource call succeeds and at
\* most one insert is made, no call is made after one that succeeded, and all
\* routed points of a name go to one data source
C4_AtMostOnce ==
  /\ \A n \in DOMAIN hist.creates :
       /\ Lookup(hist.inserts, n, 0) <= 1
       /\ hist.creates[n] = Lookup(hist.createErrs, n, 0) + Lookup(hist.inserts, n, 0)
  /\ \A r1, r2 \in hist.routedTo : r1.Name = r2.Name => r1.ds = r2.ds

\* C4 witness: createDataSource failed for a name, a later point of that name
\* created the data source, and the point was routed
C4_Witness ==
  \E n \in DOMAIN hist.creates :
    /\ hist.creates[n] = 2 /\ Lookup(hist.inserts, n, 0) = 1
    /\ \E r \in hist.routedTo : r.Name = n

\* C5: flush ordering per data source: flushDataSource gets the snapshots of
\* an id in the order the worker produced them, LastFlushRT non-decreasing
C5_FlushOrder ==
  \A id \in Ids :
    /\ IsPrefix(hist.flushed[id], hist.produced[id])
    /\ \A k \in 1 .. (Len(hist.flushed[id]) - 1) : hist.flushed[id][k].LastFlushRT <= hist.flushed[id][k + 1].LastFlushRT

\* C5 witness: two snapshots of one data source have been flushed, the
\* second with a later LastFlushRT
C5_Witness ==
  \E id \in Ids :
    /\ Len(hist.flushed[id]) >= 2
    /\ hist.flushed[id][1].LastFlushRT < hist.flushed[id][2].LastFlushRT

\* C7: a storage call that keeps a flusher busy does not stall the worker of
\* its shard: a worker that has a snapshot to hand over is not kept waiting
\* while the flusher is inside flushDataSource
C7_NoStall ==
  \A i \in Shards : wPc[i] = "flushOne" => flPc[FlusherIdx(wDs[i])] # "call"

\* C8: shutdown ordering: the stat worker has finished before a worker
\* channel is closed, a worker channel is empty when it is closed, all workers
\* have finished before a flusher channel is closed, and the dispatcher exits
\* after all flushers have finished
C8_ShutdownOrder ==
  /\ (\E i \in Shards : workerClosed[i]) => statPc = "done"
  /\ \A i \in Shards : workerClosed[i] => workerChs[i] = <<>>
  /\ (\E f \in Shards : flusherClosed[f]) => \A i \in Shards : wPc[i] = "done"
  /\ dispPc = "done" => \A f \in Shards : flPc[f] = "done"
  /\ dispPc \notin {"none", "spawned", "loop"} => dpClosed /\ dpCh = <<>>

\* C8 witness: the dispatcher has exited after points were applied and flushed
C8_Witness ==
  /\ dispPc = "done"
  /\ hist.processed # {}
  /\ \E id \in Ids : hist.flushed[id] # <<>>

\* C9: startup ordering: the dispatcher is launched only after every worker,
\* every flusher and the stat worker has given its started signal and after
\* reload(); no point is dequeued before the reload; and after a failure of
\* the service manager the dispatcher is never launched
C9_StartupOrder ==
  /\ dispPc # "none" =>
       /\ startWg = 0 /\ reloaded
       /\ \A i \in Shards : wPc[i] \notin {"none", "spawned"} /\ flPc[i] \notin {"none", "spawned"}
       /\ statPc \notin {"none", "spawned"}
  /\ hist.dequeued > 0 => reloaded
  /\ startPc = "failed" => dispPc = "none"

\* C9 witness: the dispatcher was launched and has dequeued a point that was
\* queued before the launch
C9_Witness == dispPc = "loop" /\ hist.dequeued > 0 /\ reloaded

\* C6: requestDsCopy always returns: once the owning worker has taken the
\* request, the caller has its answer, which is null for an unknown id
C6_AlwaysReturns ==
  hist.reqHandled => reqPc = "returned" /\ (getById(reqId) = NoDs => reqResp = NoDs)

(* ---- properties of the stat worker ---- *)

\* C10: stats rate correctness: a flush emits, for every counter that got
\* values since the flush before, exactly one point <prefix>.c whose value is
\* their sum divided by the StatFlush seconds; and the flush empties the maps
C10_RateCorrect ==
  LET pts == hist.lastFlush.points
      sums == hist.lastFlush.sums
  IN /\ \A c \in DOMAIN sums :
          /\ Cardinality({k \in DOMAIN pts : pts[k].Name = <<prefix, c>>}) = 1
          /\ \A k \in DOMAIN pts : pts[k].Name = <<prefix, c>> => RatEq(pts[k].Value, Quot(sums[c], Scale * StatFlushSecs))
     /\ DOMAIN counts = DOMAIN hist.statSum
     /\ DOMAIN gauges = DOMAIN hist.gaugeLast
     /\ DOMAIN timers = DOMAIN hist.timerObs

\* the sum of the values of a sequence
RECURSIVE SeqSum(_)
SeqSum(L) == IF L = <<>> THEN 0 ELSE Head(L) + SeqSum(Tail(L))
\* the least and the greatest value of a non-empty sequence
SeqMin(L) == CHOOSE v \in Range(L) : \A w \in Range(L) : v <= w
SeqMax(L) == CHOOSE v \in Range(L) : \A w \in Range(L) : v >= w
\* the flush emitted exactly one point of this name, and its value is q
EmitsOnce(pts, name, q) ==
  /\ Cardinality({k \in DOMAIN pts : pts[k].Name = name}) = 1
  /\ \A k \in DOMAIN pts : pts[k].Name = name => RatEq(pts[k].Value, q)

\* C11: timer summaries: for every timer that got a non-empty list L of
\* observations since the flush before, the flush emits count = |L|,
\* lower = min L, upper = max L, sum = sum of L and mean = (sum of L)/|L|
C11_TimerSummaries ==
  LET pts == hist.lastFlush.points
      obs == hist.lastFlush.obs
  IN \A t \in DOMAIN obs :
       LET L == obs[t] IN
       /\ EmitsOnce(pts, <<prefix, "timers", t, "count">>, Quot(Len(L), 1))
       /\ EmitsOnce(pts, <<prefix, "timers", t, "lower">>, Quot(SeqMin(L), Scale))
       /\ EmitsOnce(pts, <<prefix, "timers", t, "upper">>, Quot(SeqMax(L), Scale))
       /\ EmitsOnce(pts, <<prefix, "timers", t, "sum">>, Quot(SeqSum(L), Scale))
       /\ EmitsOnce(pts, <<prefix, "timers", t, "mean">>, Quot(SeqSum(L), Scale * Len(L)))

\* C12: stat tick drop-on-busy: flushCh never holds more than one tick, a
\* tick that finds one pending is dropped, and every flush of the running
\* aggregator consumes one accepted tick: flushes plus the pending tick are
\* the accepted ticks
C12_TickDrop ==
  /\ flushCh <= FlushChCap
  /\ hist.nFlushes + flushCh = hist.ticks

\* C12 witness: a tick was dropped while one was pending, and the pending
\* tick was then served by a flush
C12_Witness == hist.dropped >= 1 /\ hist.nFlushes >= 1 /\ flushCh = 0

(* ---- properties of the shutdown ---- *)

\* C13: the final flush: when the aggregator finds its inbox closed, the
\* flush it makes completes every send through queueDataPoint (none fails or
\* blocks), and the aggregator has exited after it
C13_FinalFlush == [][statWorker_closed => ~panicked' /\ statPc' = "done"]_vars

\* C14: no task sends on a channel that is already closed (such a send is a
\* panic): not the aggregator on the arrival queue, not the dispatcher on a
\* worker channel, not a worker on a flusher channel
C14_NoSendOnClosed == ~panicked

\* C15: stop() returns only after the dispatcher has completed the ordered
\* shutdown: the aggregator, the workers and the flushers have finished
C15_StopWaits ==
  stopPc = "returned" =>
    /\ dispPc = "done"
    /\ statPc = "done"
    /\ \A i \in Shards : wPc[i] = "done" /\ flPc[i] = "done"

(* ---- properties of the worker's steps ---- *)

\* C16: the outcome of the incoming-point step of a worker. When process
\* succeeds, either the ds is to be flushed (shouldBeFlushed is true): then
\* the flush that follows submits exactly one snapshot of it and leaves its id
\* out of recent; or it is not: then no snapshot is submitted and the id is in
\* recent. When process returns an error, no snapshot is submitted, recent is
\* unchanged and the worker is back at its select
C16_PointOutcome ==
  [][\A i \in Shards :
       /\ (wPc[i] = "select" /\ Len(workerChs'[i]) < Len(workerChs[i])) =>
            LET dp == Head(workerChs[i]) IN
            IF dp.seq \in hist'.applied
              THEN \/ wPc'[i] = "flushOne" /\ wDs'[i] = dp.ds
                   \/ wPc'[i] = "select" /\ dp.ds \in recent'[i] /\ hist'.produced = hist.produced
              ELSE wPc'[i] = "select" /\ recent' = recent /\ hist'.produced = hist.produced
       /\ (wPc[i] = "flushOne" /\ wPc'[i] = "select") =>
            /\ Len(hist'.produced[wDs[i]]) = Len(hist.produced[wDs[i]]) + 1
            /\ wDs[i] \notin recent'[i]
  ]_vars

\* C17: a lost data source during a flush pass: when the pass of a worker
\* comes to an id of recent that the registry no longer resolves, the id is
\* removed from recent in that pass and no snapshot is submitted for it
C17_LostRemoved ==
  [][/\ \A i \in Shards : \A id \in wTodo[i] :
          (wPc[i] = "pass" /\ wTodo'[i] = wTodo[i] \ {id} /\ getById(id) = NoDs) =>
            /\ id \notin recent'[i]
            /\ hist'.produced[id] = hist.produced[id]
     /\ recv_periodic =>
          \A id \in recvRecent \ recvDss :
            /\ id \notin recvRecent'
            /\ recvHist'.flushes[id] = recvHist.flushes[id]
  ]_vars

\* C18: the periodic flush decision: on a periodic tick a data source of
\* recent is submitted to its flusher and removed from recent exactly when
\* shouldBeFlushed(maxPoints, minCacheDur, maxCacheDur) is true
C18_PeriodicDecision ==
  [][recv_periodic =>
       \A id \in recvRecent \cap recvDss :
         (id \notin recvRecent' /\ Len(recvHist'.flushes[id]) = Len(recvHist.flushes[id]) + 1)
           <=> shouldBeFlushed(recvDs[id], MaxCachedPoints, MinCacheDur, MaxCacheDur)
  ]_vars

\* where the sample q is held: in the live data source id (k = 0) or in the
\* k-th snapshot made of the data source id
Holders(q) ==
  {<<id, 0>> : id \in {d \in Ids : q \in live[d].slots}} \cup
  UNION {{<<id, k>> : k \in {j \in DOMAIN hist.produced[id] : q \in hist.produced[id][j].slots}} : id \in Ids}

\* C19: copy-on-snapshot: every sample that process applied is held in
\* exactly one place, the live data source until its next flush and exactly
\* one snapshot after it (none cleared without being copied, none repeated in
\* a later snapshot); snapshots and live data sources hold applied samples
\* only; when a worker has returned all samples of its data sources are in
\* snapshots; and the snapshot a flusher holds or has flushed is the one the
\* worker produced, whatever was applied to the live data source since
C19_CopyOnSnapshot ==
  /\ \A q \in hist.applied : Cardinality(Holders(q)) = 1
  /\ \A id \in Ids :
       /\ live[id].slots \subseteq hist.applied
       /\ \A k \in DOMAIN hist.produced[id] : hist.produced[id][k].slots \subseteq hist.applied
       /\ wPc[WorkerIdx(id)] = "done" => live[id].slots = {}
       /\ IsPrefix(hist.flushed[id], hist.produced[id])
  /\ \A f \in Shards :
       flPc[f] = "call" =>
         LET id == flCur[f].Id IN
         /\ Len(hist.produced[id]) = Len(hist.flushed[id]) + 1
         /\ flCur[f] = hist.produced[id][Len(hist.produced[id])]

\* C19 witness: a snapshot holding a sample has been flushed, and a later
\* sample of the same data source was applied to the live data source
C19_Witness ==
  \E id \in Ids :
    /\ Len(hist.flushed[id]) >= 1
    /\ hist.flushed[id][1].slots # {}
    /\ live[id].slots # {}

(* ---- properties of the periodic flush timers ---- *)

\* C20: the range of the periodic flush timer: with MinCache <= MaxCache,
\* computing the sleep never fails, and every sleep lasts at least MinCache
\* and at most MaxCache
C20_TimerRange ==
  /\ periodicTimer.pc # "panicked"
  /\ periodicTimer.pc = "sleeping" =>
       periodicTimer.minCache <= periodicTimer.sleep /\ periodicTimer.sleep <= periodicTimer.maxCache

\* the timer of src/receiver/worker.go keeps the range
ReceiverTimerRange == periodicTimer.variant = "receiver" => C20_TimerRange

====
